---- MODULE Spec2Model ----
(***************************************************************************)
(* Model of the packaging utilities of sqliteai/sqlite-ai:                 *)
(*   - packages/python/download_artifacts.py  (the artifact fetcher)       *)
(*   - packages/python/setup.py               (configurator, PLAT_NAME)    *)
(*   - python-package/setup.py                (configurator, --plat-name)  *)
(*                                                                         *)
(* Python strings are sequences of one-character strings, so that          *)
(* str.lower, str.endswith, the `in` substring test and path joining are   *)
(* computed, not assumed.  A path below BINARIES_DIR is the sequence of    *)
(* its components.  The file system below BINARIES_DIR is a function from  *)
(* the existing paths to nodes.                                            *)
(***************************************************************************)
EXTENDS Integers, Sequences, FiniteSets, TLC

VARIABLES
    hostOS,             \* os.name of the machine the fetcher runs on
    fs,                 \* the file system below (and including) BINARIES_DIR
    wiped,              \* history: the runs whose files this run's reset removed
    run,                \* history: number of the current fetcher run
    pc,                 \* position of the fetcher process
    exitCode,           \* exit status of the last finished run
    argv,               \* sys.argv of the current run
    platform,           \* main: platform
    version,            \* main: version
    platform_artifacts, \* main: platform_artifacts
    idx,                \* main: position of the for loop (1-based)
    r,                  \* download_and_extract: the response r
    namelist,           \* download_and_extract: zip_ref.namelist()
    mi,                 \* download_and_extract: position of the member loop
    log,                \* history: what the current run did, in order
    PLAT_NAME,          \* os.environ.get("PLAT_NAME") (variant A)
    a_pc,               \* position of variant A (packages/python/setup.py)
    base_tag,           \* get_tag: what bdist_wheel.get_tag(self) returned
    root_is_pure,       \* PlatformSpecificWheel.root_is_pure
    self_plat_name,     \* PlatformSpecificWheel.plat_name
    tag,                \* what PlatformSpecificWheel.get_tag returned
    a_classifiers,      \* classifiers handed to setup() by variant A
    PACKAGE_VERSION,    \* os.environ.get("PACKAGE_VERSION", "") (variant B)
    b_argv,             \* sys.argv of variant B (python-package/setup.py)
    b_pc,               \* position of variant B
    plat_name,          \* variant B: plat_name
    classifier,         \* variant B: classifier
    b_classifiers,      \* classifiers handed to setuptools.setup() by variant B
    b_exit              \* exit status of variant B

fetchVars ==
    <<hostOS, fs, wiped, run, pc, exitCode, argv, platform, version,
      platform_artifacts, idx, r, namelist, mi, log>>

cfgVars ==
    <<PLAT_NAME, a_pc, base_tag, root_is_pure, self_plat_name, tag, a_classifiers,
      PACKAGE_VERSION, b_argv, b_pc, plat_name, classifier, b_classifiers, b_exit>>

vars ==
    <<fetchVars, cfgVars>>

----------------------------------------------------------------------------
(* Bounds of the model.                                                    *)

\* Number of fetcher runs in one behaviour.
MaxRuns ==
    2

\* Largest number of entries of a downloaded archive.
MaxEntries ==
    2

----------------------------------------------------------------------------
(* Python values and string operations.                                    *)

\* Python's None, distinct from every string (no string holds this character).
None ==
    <<"<None>">>

\* Truth value of a string-or-None, as `not x` / `if x` take it.
Truthy(x) ==
    x # None /\ x # <<>>

UpperCase ==
    <<"A","B","C","D","E","F","G","H","I","J","K","L","M","N","O","P","Q","R","S","T","U","V","W","X","Y","Z">>

LowerCase ==
    <<"a","b","c","d","e","f","g","h","i","j","k","l","m","n","o","p","q","r","s","t","u","v","w","x","y","z">>

LowerChar(c) ==
    IF \E i \in 1..Len(UpperCase) : UpperCase[i] = c
    THEN LowerCase[CHOOSE i \in 1..Len(UpperCase) : UpperCase[i] = c]
    ELSE c

\* str.lower()
Lower(s) ==
    [i \in 1..Len(s) |-> LowerChar(s[i])]

\* s.endswith(suffix)
EndsWith(s, suffix) ==
    /\ Len(suffix) <= Len(s)
    /\ SubSeq(s, Len(s) - Len(suffix) + 1, Len(s)) = suffix

\* sub in s
Contains(s, sub) ==
    \E i \in 1..(Len(s) - Len(sub) + 1) : SubSeq(s, i, i + Len(sub) - 1) = sub

\* Components of a "/"-separated relative path, empty components dropped,
\* as both pathlib's `/` and ZipFile.extract take it.
RECURSIVE SplitPath(_)
SplitPath(s) ==
    IF s = <<>> THEN <<>>
    ELSE IF \E i \in 1..Len(s) : s[i] = "/"
    THEN LET i == CHOOSE k \in 1..Len(s) : s[k] = "/" /\ \A j \in 1..(k - 1) : s[j] # "/"
             head == SubSeq(s, 1, i - 1)
             rest == SplitPath(SubSeq(s, i + 1, Len(s)))
         IN  IF head = <<>> THEN rest ELSE <<head>> \o rest
    ELSE <<s>>

\* A dict literal's lookup with a default: d.get(k, default)
DictGet(d, k, default) ==
    IF k \in DOMAIN d THEN d[k] ELSE default

----------------------------------------------------------------------------
(* The fetcher's tables.                                                   *)

ARTIFACTS ==
    (<<"m","a","n","y","l","i","n","u","x","2","0","1","4","_","x","8","6","_","6","4">> :> <<<<"a","i","-","l","i","n","u","x","-","c","p","u","-","x","8","6","_","6","4">>, <<"a","i","-","l","i","n","u","x","-","g","p","u","-","x","8","6","_","6","4">>>>)
    @@ (<<"m","a","n","y","l","i","n","u","x","2","0","1","4","_","a","a","r","c","h","6","4">> :> <<<<"a","i","-","l","i","n","u","x","-","c","p","u","-","a","r","m","6","4">>, <<"a","i","-","l","i","n","u","x","-","g","p","u","-","a","r","m","6","4">>>>)
    @@ (<<"w","i","n","_","a","m","d","6","4">> :> <<<<"a","i","-","w","i","n","d","o","w","s","-","c","p","u","-","x","8","6","_","6","4">>, <<"a","i","-","w","i","n","d","o","w","s","-","g","p","u","-","x","8","6","_","6","4">>>>)
    @@ (<<"m","a","c","o","s","x","_","1","0","_","9","_","x","8","6","_","6","4">> :> <<<<"a","i","-","m","a","c","o","s">>>>)
    @@ (<<"m","a","c","o","s","x","_","1","1","_","0","_","a","r","m","6","4">> :> <<<<"a","i","-","m","a","c","o","s">>>>)

BINARY_NAME ==
    (<<"m","a","n","y","l","i","n","u","x","2","0","1","4","_","x","8","6","_","6","4">> :> <<"a","i",".","s","o">>)
    @@ (<<"m","a","n","y","l","i","n","u","x","2","0","1","4","_","a","a","r","c","h","6","4">> :> <<"a","i",".","s","o">>)
    @@ (<<"w","i","n","_","a","m","d","6","4">> :> <<"a","i",".","d","l","l">>)
    @@ (<<"m","a","c","o","s","x","_","1","0","_","9","_","x","8","6","_","6","4">> :> <<"a","i",".","d","y","l","i","b">>)
    @@ (<<"m","a","c","o","s","x","_","1","1","_","0","_","a","r","m","6","4">> :> <<"a","i",".","d","y","l","i","b">>)

\* BINARIES_DIR itself, as a path relative to BINARIES_DIR.
BINARIES_DIR ==
    <<>>

----------------------------------------------------------------------------
(* The file system.                                                        *)

\* Content of a file: a zip archive (its entries, in archive order) or other
\* bytes, identified by id.
ZipBlob(entries) ==
    [zip |-> TRUE, entries |-> entries, id |-> 0]

PlainBlob(id) ==
    [zip |-> FALSE, entries |-> <<>>, id |-> id]

DirNode(n) ==
    [kind |-> "dir", data |-> PlainBlob(0), run |-> n]

FileNode(data, n) ==
    [kind |-> "file", data |-> data, run |-> n]

Prefixes(p) ==
    {SubSeq(p, 1, k) : k \in 0..Len(p)}

ProperPrefixes(p) ==
    {SubSeq(p, 1, k) : k \in 0..(Len(p) - 1)}

IsUnder(p, d) ==
    Len(d) <= Len(p) /\ SubSeq(p, 1, Len(d)) = d

Exists(f, p) ==
    p \in DOMAIN f

IsFile(f, p) ==
    p \in DOMAIN f /\ f[p].kind = "file"

IsDir(f, p) ==
    p \in DOMAIN f /\ f[p].kind = "dir"

\* Faulty variant of Rmtree (C10 is tested against it): only the files below
\* d are removed, the directories stay.
Rmtree_FilesOnly(f, d) ==
    [q \in {p \in DOMAIN f : ~(IsUnder(p, d) /\ IsFile(f, p))} |-> f[q]]

\* shutil.rmtree(d)
Rmtree(f, d) ==
    [q \in {p \in DOMAIN f : ~IsUnder(p, d)} |-> f[q]]

\* Path.mkdir(parents=True, exist_ok=True), by run n
Mkdir(f, p, n) ==
    [q \in DOMAIN f \cup Prefixes(p) |-> IF q \in DOMAIN f THEN f[q] ELSE DirNode(n)]

\* open(p, "wb").write(data), by run n
WriteFile(f, p, data, n) ==
    [q \in DOMAIN f \cup {p} |-> IF q = p THEN FileNode(data, n) ELSE f[q]]

\* Faulty variant of Unlink (C7 is tested against it): the file stays.
Unlink_Keep(f, p) ==
    f

\* Path.unlink()
Unlink(f, p) ==
    [q \in DOMAIN f \ {p} |-> f[q]]

\* ZipFile.extract(member, out_dir): the target is out_dir joined with the
\* member's components; missing upper directories are made, the entry's bytes
\* are written over whatever file is there.  It raises when an upper
\* directory is a file or the target is a directory.
ExtractTarget(out_dir, member) ==
    out_dir \o SplitPath(member)

ExtractFails(f, target) ==
    \/ \E a \in ProperPrefixes(target) : IsFile(f, a)
    \/ IsDir(f, target)

Extract(f, target, body, n) ==
    LET g == Mkdir(f, SubSeq(target, 1, Len(target) - 1), n)
    IN  WriteFile(g, target, PlainBlob(body), n)

\* Path.rename(dst) of the file src.  A rename onto itself does nothing.
\* On POSIX an existing file dst is replaced and an existing directory dst
\* raises; on Windows any existing dst raises.
RenameFails(f, src, dst, os) ==
    /\ src # dst
    /\ Exists(f, dst)
    /\ (os = "nt" \/ IsDir(f, dst))

\* Faulty variant of Rename (C5 is tested against it): a copy, the source
\* stays.
Rename_Copy(f, src, dst) ==
    [q \in DOMAIN f \cup {dst} |-> IF q = dst THEN f[src] ELSE f[q]]

Rename(f, src, dst) ==
    IF src = dst THEN f
    ELSE [q \in (DOMAIN f \ {src}) \cup {dst} |-> IF q = dst THEN f[src] ELSE f[q]]

----------------------------------------------------------------------------
(* Inputs of the fetcher.                                                  *)

\* Command lines: no argument, one, two (every known platform, a known one
\* in upper case, the unknown one of the usage text, an empty one; an empty
\* and a non-empty version, and a second version for one platform) and three.
PlatformInputs ==
    DOMAIN ARTIFACTS \cup {<<"W","I","N","_","A","M","D","6","4">>, <<"l","i","n","u","x","_","x","8","6","_","6","4">>, <<>>}

VersionInputs ==
    {<<>>, <<"0",".","5",".","9">>}

Argvs ==
    {<<<<"d","o","w","n","l","o","a","d","_","a","r","t","i","f","a","c","t","s",".","p","y">>>>,
     <<<<"d","o","w","n","l","o","a","d","_","a","r","t","i","f","a","c","t","s",".","p","y">>, <<"w","i","n","_","a","m","d","6","4">>>>,
     <<<<"d","o","w","n","l","o","a","d","_","a","r","t","i","f","a","c","t","s",".","p","y">>, <<"w","i","n","_","a","m","d","6","4">>, <<"0",".","5",".","9">>, <<"e","x","t","r","a">>>>,
     <<<<"d","o","w","n","l","o","a","d","_","a","r","t","i","f","a","c","t","s",".","p","y">>, <<"m","a","c","o","s","x","_","1","1","_","0","_","a","r","m","6","4">>, <<"0",".","6",".","0">>>>}
    \cup {<<<<"d","o","w","n","l","o","a","d","_","a","r","t","i","f","a","c","t","s",".","p","y">>, p, v>> : p \in PlatformInputs, v \in VersionInputs}

\* Entry names an archive for binary name b may hold: b at the top level, b in
\* a directory, a file whose name merely ends with b, b in a directory that
\* is itself named b, and a file that does not match.
EntryNames(b) ==
    {b, <<"d","/">> \o b, <<"x">> \o b, b \o <<"/">> \o b, <<"R","E","A","D","M","E",".","m","d">>}

\* Archives of at most MaxEntries entries with distinct names; the bytes of
\* the entry at position i are identified by i.
Archives(b) ==
    UNION {{ZipBlob([i \in 1..n |-> [name |-> names[i], body |-> i]]) :
               names \in {s \in [1..n -> EntryNames(b)] :
                             \A i, j \in 1..n : i # j => s[i] # s[j]}} :
           n \in 0..MaxEntries}

\* Response bodies: an archive, or bytes that are no zip file.
Responses(b) ==
    {[status_code |-> 200, content |-> c] : c \in Archives(b) \cup {PlainBlob(1)}}
    \cup {[status_code |-> s, content |-> PlainBlob(2)] : s \in {404, 500}}

NoResponse ==
    [status_code |-> 0, content |-> PlainBlob(0)]

\* File systems the first run may find: no BINARIES_DIR, an empty one, and
\* one holding files of an earlier build (created by "run 0").
InitialFs ==
    {<<>>,
     Mkdir(<<>>, BINARIES_DIR, 0),
     WriteFile(WriteFile(Mkdir(<<>>, <<<<"c","p","u">>>>, 0),
                         <<<<"c","p","u">>, <<"a","i",".","s","o">>>>, PlainBlob(9), 0),
               <<<<"a","i","-","m","a","c","o","s","-","0",".","5",".","9",".","z","i","p">>>>, ZipBlob(<<>>), 0)}

----------------------------------------------------------------------------
(* download_and_extract's locals, from main's loop variables.              *)

artifact_name ==
    platform_artifacts[idx]

bin_name ==
    BINARY_NAME[platform]

\* artifact = f"{artifact_name}-{version}.zip"
Artifact(name, ver) ==
    name \o <<"-">> \o ver \o <<".","z","i","p">>

\* zip_path = BINARIES_DIR / artifact
ZipPath(name, ver) ==
    BINARIES_DIR \o <<Artifact(name, ver)>>

\* Faulty variant of Subdir (C6 is tested against it): every artifact goes
\* to cpu.
Subdir_AlwaysCpu(name) ==
    <<"c","p","u">>

\* subdir = "gpu" if "gpu" in artifact_name else "cpu"
Subdir(name) ==
    IF Contains(name, <<"g","p","u">>) THEN <<"g","p","u">> ELSE <<"c","p","u">>

\* out_dir = BINARIES_DIR / subdir
OutDir(name) ==
    BINARIES_DIR \o <<Subdir(name)>>

\* Faulty variant of Failed (C2 is tested against it): only a 5xx status is
\* a failure.
Failed_Only5xx(resp) ==
    resp.status_code >= 500

\* if r.status_code != 200
Failed(resp) ==
    resp.status_code # 200

Event(ev, i, n) ==
    [ev |-> ev, i |-> i, n |-> n]

----------------------------------------------------------------------------
(* The fetcher.                                                            *)

InitCfgIdle ==
    /\ PLAT_NAME = None
    /\ a_pc = "idle"
    /\ base_tag = <<None, None, None>>
    /\ root_is_pure = TRUE
    /\ self_plat_name = None
    /\ tag = <<None, None, None>>
    /\ a_classifiers = <<>>
    /\ PACKAGE_VERSION = <<>>
    /\ b_argv = <<>>
    /\ b_pc = "idle"
    /\ plat_name = None
    /\ classifier = None
    /\ b_classifiers = <<>>
    /\ b_exit = -1

InitFetchIdle ==
    /\ wiped = {}
    /\ run = 0
    /\ pc = "idle"
    /\ exitCode = -1
    /\ argv = <<>>
    /\ platform = None
    /\ version = None
    /\ platform_artifacts = <<>>
    /\ idx = 0
    /\ r = NoResponse
    /\ namelist = <<>>
    /\ mi = 0
    /\ log = <<>>

Init ==
    /\ hostOS \in {"posix", "nt"}
    /\ fs \in InitialFs
    /\ InitFetchIdle
    /\ InitCfgIdle

\* The process is started: python3 download_artifacts.py ...
Launch ==
    /\ pc \in {"idle", "exit"}
    /\ run < MaxRuns
    /\ \E a \in Argvs : argv' = a
    /\ run' = run + 1
    /\ wiped' = {}
    /\ pc' = "parse"
    /\ exitCode' = -1
    /\ platform' = None
    /\ version' = None
    /\ platform_artifacts' = <<>>
    /\ idx' = 0
    /\ r' = NoResponse
    /\ namelist' = <<>>
    /\ mi' = 0
    /\ log' = <<>>
    /\ UNCHANGED <<hostOS, fs, cfgVars>>

\* main: the arguments, and the usage error
ParseArgs ==
    /\ pc = "parse"
    /\ platform' = IF Len(argv) = 3 THEN Lower(argv[2]) ELSE None
    /\ version' = IF Len(argv) = 3 THEN argv[3] ELSE None
    /\ IF ~Truthy(version') \/ ~Truthy(platform')
       THEN pc' = "exit" /\ exitCode' = 1
       ELSE pc' = "reset" /\ exitCode' = exitCode
    /\ UNCHANGED <<hostOS, fs, wiped, run, argv, platform_artifacts, idx, r,
                   namelist, mi, log, cfgVars>>

\* Faulty variant of ResetFs (C4 is tested against it): the directory is
\* made when missing, never removed.
ResetFs_NoRmtree(f, n) ==
    Mkdir(f, BINARIES_DIR, n)

\* if BINARIES_DIR.exists(): shutil.rmtree(BINARIES_DIR)
\* BINARIES_DIR.mkdir(parents=True, exist_ok=True)
ResetFs(f, n) ==
    Mkdir(IF Exists(f, BINARIES_DIR) THEN Rmtree(f, BINARIES_DIR) ELSE f, BINARIES_DIR, n)

\* main: the destructive reset of BINARIES_DIR
ResetDir ==
    /\ pc = "reset"
    /\ fs' = ResetFs(fs, run)
    /\ wiped' = {fs[p].run : p \in DOMAIN fs \ DOMAIN fs'}
    /\ pc' = "lookup"
    /\ UNCHANGED <<hostOS, run, exitCode, argv, platform, version,
                   platform_artifacts, idx, r, namelist, mi, log, cfgVars>>

\* Faulty variant of Lookup (C1 is tested against it): the empty list of an
\* unknown platform is not checked.
Lookup_NoCheck ==
    /\ pc = "lookup"
    /\ platform_artifacts' = DictGet(ARTIFACTS, platform, <<>>)
    /\ pc' = "for"
    /\ idx' = 1
    /\ UNCHANGED <<hostOS, fs, wiped, run, exitCode, argv, platform, version, r,
                   namelist, mi, log, cfgVars>>

\* main: the platform lookup, and the unknown-platform error
Lookup ==
    /\ pc = "lookup"
    /\ platform_artifacts' = DictGet(ARTIFACTS, platform, <<>>)
    /\ IF platform_artifacts' = <<>>
       THEN pc' = "exit" /\ exitCode' = 1 /\ idx' = idx
       ELSE pc' = "for" /\ exitCode' = exitCode /\ idx' = 1
    /\ UNCHANGED <<hostOS, fs, wiped, run, argv, platform, version, r,
                   namelist, mi, log, cfgVars>>

\* main: the for loop's head; past the last artifact main returns and the
\* process ends with status 0
ForArtifact ==
    /\ pc = "for"
    /\ IF idx > Len(platform_artifacts)
       THEN pc' = "exit" /\ exitCode' = 0
       ELSE pc' = "get" /\ exitCode' = exitCode
    /\ UNCHANGED <<hostOS, fs, wiped, run, argv, platform, version,
                   platform_artifacts, idx, r, namelist, mi, log, cfgVars>>

\* download_and_extract: r = requests.get(url), status 200
GetOk ==
    /\ pc = "get"
    /\ \E resp \in Responses(bin_name) :
          /\ ~Failed(resp)
          /\ r' = resp
          /\ log' = Append(log, Event("get", idx, resp.status_code))
    /\ pc' = "write"
    /\ UNCHANGED <<hostOS, fs, wiped, run, exitCode, argv, platform, version,
                   platform_artifacts, idx, namelist, mi, cfgVars>>

\* Faulty variant of GetFailed (C3 is tested against it): the failure is
\* noted and the loop goes on with the next artifact.
GetFailed_Continue ==
    /\ pc = "get"
    /\ \E resp \in Responses(bin_name) :
          /\ Failed(resp)
          /\ r' = resp
          /\ log' = Append(log, Event("get", idx, resp.status_code))
    /\ idx' = idx + 1
    /\ pc' = "for"
    /\ UNCHANGED <<hostOS, fs, wiped, run, exitCode, argv, platform, version,
                   platform_artifacts, namelist, mi, cfgVars>>

\* download_and_extract: r = requests.get(url), another status: sys.exit(1)
GetFailed ==
    /\ pc = "get"
    /\ \E resp \in Responses(bin_name) :
          /\ Failed(resp)
          /\ r' = resp
          /\ log' = Append(log, Event("get", idx, resp.status_code))
    /\ pc' = "exit"
    /\ exitCode' = 1
    /\ UNCHANGED <<hostOS, fs, wiped, run, argv, platform, version,
                   platform_artifacts, idx, namelist, mi, cfgVars>>

\* download_and_extract: the response body is written to zip_path
WriteZip ==
    /\ pc = "write"
    /\ fs' = WriteFile(fs, ZipPath(artifact_name, version), r.content, run)
    /\ log' = Append(log, Event("write", idx, 0))
    /\ pc' = "mkdir"
    /\ UNCHANGED <<hostOS, wiped, run, exitCode, argv, platform, version,
                   platform_artifacts, idx, r, namelist, mi, cfgVars>>

\* download_and_extract: out_dir.mkdir(parents=True, exist_ok=True)
\* (no file is ever named cpu or gpu in the freshly reset BINARIES_DIR, so
\* the call cannot raise)
MkSubdir ==
    /\ pc = "mkdir"
    /\ fs' = Mkdir(fs, OutDir(artifact_name), run)
    /\ log' = Append(log, Event("mkdir", idx, 0))
    /\ pc' = "open"
    /\ UNCHANGED <<hostOS, wiped, run, exitCode, argv, platform, version,
                   platform_artifacts, idx, r, namelist, mi, cfgVars>>

\* download_and_extract: zipfile.ZipFile(zip_path, "r") and namelist();
\* bytes that are no zip file raise BadZipFile, which nothing catches
OpenZip ==
    /\ pc = "open"
    /\ LET data == fs[ZipPath(artifact_name, version)].data
       IN  IF data.zip
           THEN /\ namelist' = [i \in 1..Len(data.entries) |-> data.entries[i].name]
                /\ mi' = 1
                /\ pc' = "scan"
                /\ UNCHANGED <<exitCode, log>>
           ELSE /\ pc' = "exit"
                /\ exitCode' = 1
                /\ log' = Append(log, Event("raise", idx, 0))
                /\ UNCHANGED <<namelist, mi>>
    /\ UNCHANGED <<hostOS, fs, wiped, run, argv, platform, version,
                   platform_artifacts, idx, r, cfgVars>>

\* download_and_extract: one turn of `for member in zip_ref.namelist()`, or
\* the end of the loop.  An exception of extract or rename ends the process
\* (status 1) where it is raised.
ScanMember ==
    /\ pc = "scan"
    /\ IF mi > Len(namelist)
       THEN /\ pc' = "unlink"
            /\ UNCHANGED <<fs, exitCode, mi, log>>
       ELSE LET member == namelist[mi]
                body == fs[ZipPath(artifact_name, version)].data.entries[mi].body
                out_dir == OutDir(artifact_name)
                src == out_dir \o SplitPath(member)
                dst == out_dir \o <<bin_name>>
                extracted == Extract(fs, ExtractTarget(out_dir, member), body, run)
            IN  IF ~EndsWith(member, bin_name)
                THEN /\ mi' = mi + 1
                     /\ UNCHANGED <<fs, pc, exitCode, log>>
                ELSE IF ExtractFails(fs, ExtractTarget(out_dir, member))
                THEN /\ pc' = "exit"
                     /\ exitCode' = 1
                     /\ log' = Append(log, Event("raise", idx, mi))
                     /\ UNCHANGED <<fs, mi>>
                ELSE IF RenameFails(extracted, src, dst, hostOS)
                THEN /\ fs' = extracted
                     /\ pc' = "exit"
                     /\ exitCode' = 1
                     /\ log' = Append(log, Event("raise", idx, mi))
                     /\ UNCHANGED mi
                ELSE /\ fs' = Rename(extracted, src, dst)
                     /\ mi' = mi + 1
                     /\ log' = Append(log, Event("extract", idx, mi))
                     /\ UNCHANGED <<pc, exitCode>>
    /\ UNCHANGED <<hostOS, wiped, run, argv, platform, version,
                   platform_artifacts, idx, r, namelist, cfgVars>>

\* download_and_extract: zip_path.unlink(), and the return to main's loop
UnlinkZip ==
    /\ pc = "unlink"
    /\ fs' = Unlink(fs, ZipPath(artifact_name, version))
    /\ log' = Append(log, Event("unlink", idx, 0))
    /\ idx' = idx + 1
    /\ pc' = "for"
    /\ UNCHANGED <<hostOS, wiped, run, exitCode, argv, platform, version,
                   platform_artifacts, r, namelist, mi, cfgVars>>

Next ==
    \/ Launch
    \/ ParseArgs
    \/ ResetDir
    \/ Lookup
    \/ ForArtifact
    \/ GetOk
    \/ GetFailed
    \/ WriteZip
    \/ MkSubdir
    \/ OpenZip
    \/ ScanMember
    \/ UnlinkZip

Spec ==
    Init /\ [][Next]_vars


----------------------------------------------------------------------------
(* The wheel metadata configurators.  Variant A is packages/python/setup.py *)
(* (PLAT_NAME in the environment), variant B is python-package/setup.py     *)
(* (--plat-name on the command line).  They are separate programs; the      *)
(* model runs one invocation of each, interleaved.                          *)

\* get_platform_classifiers: classifier_map (variant A: one-element lists)
classifier_map_A ==
    (<<"m","a","n","y","l","i","n","u","x","2","0","1","4","_","x","8","6","_","6","4">> :> <<<<"O","p","e","r","a","t","i","n","g"," ","S","y","s","t","e","m"," ",":",":"," ","P","O","S","I","X"," ",":",":"," ","L","i","n","u","x">>>>)
    @@ (<<"m","a","n","y","l","i","n","u","x","2","0","1","4","_","a","a","r","c","h","6","4">> :> <<<<"O","p","e","r","a","t","i","n","g"," ","S","y","s","t","e","m"," ",":",":"," ","P","O","S","I","X"," ",":",":"," ","L","i","n","u","x">>>>)
    @@ (<<"w","i","n","_","a","m","d","6","4">> :> <<<<"O","p","e","r","a","t","i","n","g"," ","S","y","s","t","e","m"," ",":",":"," ","M","i","c","r","o","s","o","f","t"," ",":",":"," ","W","i","n","d","o","w","s">>>>)
    @@ (<<"m","a","c","o","s","x","_","1","0","_","9","_","x","8","6","_","6","4">> :> <<<<"O","p","e","r","a","t","i","n","g"," ","S","y","s","t","e","m"," ",":",":"," ","M","a","c","O","S">>>>)
    @@ (<<"m","a","c","o","s","x","_","1","1","_","0","_","a","r","m","6","4">> :> <<<<"O","p","e","r","a","t","i","n","g"," ","S","y","s","t","e","m"," ",":",":"," ","M","a","c","O","S">>>>)

\* classifier_map (variant B: strings)
classifier_map_B ==
    (<<"m","a","n","y","l","i","n","u","x","2","0","1","4","_","x","8","6","_","6","4">> :> <<"O","p","e","r","a","t","i","n","g"," ","S","y","s","t","e","m"," ",":",":"," ","P","O","S","I","X"," ",":",":"," ","L","i","n","u","x">>)
    @@ (<<"m","a","n","y","l","i","n","u","x","2","0","1","4","_","a","a","r","c","h","6","4">> :> <<"O","p","e","r","a","t","i","n","g"," ","S","y","s","t","e","m"," ",":",":"," ","P","O","S","I","X"," ",":",":"," ","L","i","n","u","x">>)
    @@ (<<"w","i","n","_","a","m","d","6","4">> :> <<"O","p","e","r","a","t","i","n","g"," ","S","y","s","t","e","m"," ",":",":"," ","M","i","c","r","o","s","o","f","t"," ",":",":"," ","W","i","n","d","o","w","s">>)
    @@ (<<"m","a","c","o","s","x","_","1","0","_","9","_","x","8","6","_","6","4">> :> <<"O","p","e","r","a","t","i","n","g"," ","S","y","s","t","e","m"," ",":",":"," ","M","a","c","O","S">>)
    @@ (<<"m","a","c","o","s","x","_","1","1","_","0","_","a","r","m","6","4">> :> <<"O","p","e","r","a","t","i","n","g"," ","S","y","s","t","e","m"," ",":",":"," ","M","a","c","O","S">>)

\* Platform names supplied to a configurator: the five known ones, the
\* unknown one of variant B's usage text, and the empty string.
PlatNameInputs ==
    DOMAIN classifier_map_B \cup {<<"l","i","n","u","x","_","x","8","6","_","6","4">>, <<>>}

\* Tags bdist_wheel.get_tag may compute by itself.
BaseTags ==
    {<<py, abi, plat>> : py \in {<<"p","y","3">>, <<"c","p","3","1","1">>}, abi \in {<<"n","o","n","e">>, <<"c","p","3","1","1">>},
                         plat \in {<<"a","n","y">>, <<"l","i","n","u","x","_","x","8","6","_","6","4">>}}

\* Platform names bdist_wheel.finalize_options may set by itself.
BasePlatNames ==
    {<<"l","i","n","u","x","_","x","8","6","_","6","4">>, <<"w","i","n","_","a","m","d","6","4">>}

\* Command lines of variant B.
BArgvs ==
    {<<<<"s","e","t","u","p",".","p","y">>, <<"b","d","i","s","t","_","w","h","e","e","l">>>>,
     <<<<"s","e","t","u","p",".","p","y">>, <<"b","d","i","s","t","_","w","h","e","e","l">>, <<"-","-","p","l","a","t","-","n","a","m","e">>>>}
    \cup {<<<<"s","e","t","u","p",".","p","y">>, <<"b","d","i","s","t","_","w","h","e","e","l">>, <<"-","-","p","l","a","t","-","n","a","m","e">>, p>> : p \in PlatNameInputs}

\* Faulty variant of get_platform_classifiers (C9 is tested against it): an
\* unknown platform gets the language classifier alone.
get_platform_classifiers_Omit(pn) ==
    IF Truthy(pn) /\ pn \in DOMAIN classifier_map_A
    THEN [raised |-> FALSE,
          value |-> <<<<"P","r","o","g","r","a","m","m","i","n","g"," ","L","a","n","g","u","a","g","e"," ",":",":"," ","P","y","t","h","o","n"," ",":",":"," ","3">>, classifier_map_A[pn][1]>>]
    ELSE [raised |-> FALSE, value |-> <<<<"P","r","o","g","r","a","m","m","i","n","g"," ","L","a","n","g","u","a","g","e"," ",":",":"," ","P","y","t","h","o","n"," ",":",":"," ","3">>>>]

\* get_platform_classifiers(), given os.environ.get("PLAT_NAME"): the list
\* it returns, or the ValueError it raises
get_platform_classifiers(pn) ==
    IF Truthy(pn) /\ pn \in DOMAIN classifier_map_A
    THEN [raised |-> FALSE,
          value |-> <<<<"P","r","o","g","r","a","m","m","i","n","g"," ","L","a","n","g","u","a","g","e"," ",":",":"," ","P","y","t","h","o","n"," ",":",":"," ","3">>, classifier_map_A[pn][1]>>]
    ELSE [raised |-> TRUE, value |-> <<>>]

\* Faulty variant of get_tag (C8 is tested against it): the language and ABI
\* tags of the base class are kept.
get_tag_KeepBase(base, pn) ==
    <<base[1], base[2], IF Truthy(pn) THEN pn ELSE base[3]>>

\* PlatformSpecificWheel.get_tag, given what bdist_wheel.get_tag returned
\* and os.environ.get("PLAT_NAME")
get_tag(base, pn) ==
    <<<<"p","y","3">>, <<"n","o","n","e">>, IF Truthy(pn) THEN pn ELSE base[3]>>

\* Variant B: the value after the first "--plat-name" that has a successor
PlatNameArg(args) ==
    IF \E i \in 1..(Len(args) - 1) : args[i] = <<"-","-","p","l","a","t","-","n","a","m","e">>
    THEN LET i == CHOOSE k \in 1..(Len(args) - 1) :
                     /\ args[k] = <<"-","-","p","l","a","t","-","n","a","m","e">>
                     /\ \A j \in 1..(k - 1) : args[j] # <<"-","-","p","l","a","t","-","n","a","m","e">>
         IN  args[i + 1]
    ELSE None

\* Variant B: classifier = classifier_map.get(plat_name)
ClassifierGet(name) ==
    DictGet(classifier_map_B, name, None)

InitCfg ==
    /\ hostOS = "posix"
    /\ fs = <<>>
    /\ InitFetchIdle
    /\ PLAT_NAME \in PlatNameInputs \cup {None}
    /\ a_pc = "start"
    /\ base_tag = <<None, None, None>>
    /\ root_is_pure = TRUE
    /\ self_plat_name = None
    /\ tag = <<None, None, None>>
    /\ a_classifiers = <<>>
    /\ PACKAGE_VERSION \in {<<>>, <<"0",".","5",".","9">>}
    /\ b_argv \in BArgvs
    /\ b_pc = "start"
    /\ plat_name = None
    /\ classifier = None
    /\ b_classifiers = <<>>
    /\ b_exit = -1

\* Variant A, __main__: the classifiers argument is evaluated before setup()
\* is called; a ValueError ends the program there
A_Classifiers ==
    /\ a_pc = "start"
    /\ LET res == get_platform_classifiers(PLAT_NAME)
       IN  IF res.raised
           THEN a_pc' = "raised" /\ a_classifiers' = a_classifiers
           ELSE a_pc' = "finalize" /\ a_classifiers' = res.value
    /\ UNCHANGED <<fetchVars, PLAT_NAME, base_tag, root_is_pure, self_plat_name, tag,
                   PACKAGE_VERSION, b_argv, b_pc, plat_name, classifier,
                   b_classifiers, b_exit>>

\* PlatformSpecificWheel.finalize_options: whatever the base class set,
\* root_is_pure becomes False and PLAT_NAME, when set, becomes plat_name
A_Finalize ==
    /\ a_pc = "finalize"
    /\ \E base \in BasePlatNames :
          self_plat_name' = IF Truthy(PLAT_NAME) THEN PLAT_NAME ELSE base
    /\ root_is_pure' = FALSE
    /\ a_pc' = "tag"
    /\ UNCHANGED <<fetchVars, PLAT_NAME, base_tag, tag, a_classifiers,
                   PACKAGE_VERSION, b_argv, b_pc, plat_name, classifier,
                   b_classifiers, b_exit>>

\* PlatformSpecificWheel.get_tag
A_GetTag ==
    /\ a_pc = "tag"
    /\ \E base \in BaseTags : base_tag' = base
    /\ tag' = get_tag(base_tag', PLAT_NAME)
    /\ a_pc' = "done"
    /\ UNCHANGED <<fetchVars, PLAT_NAME, root_is_pure, self_plat_name, a_classifiers,
                   PACKAGE_VERSION, b_argv, b_pc, plat_name, classifier,
                   b_classifiers, b_exit>>

\* Variant B: PACKAGE_VERSION must be set
B_Version ==
    /\ b_pc = "start"
    /\ IF ~Truthy(PACKAGE_VERSION)
       THEN b_pc' = "exit" /\ b_exit' = 1
       ELSE b_pc' = "platname" /\ b_exit' = b_exit
    /\ UNCHANGED <<fetchVars, PLAT_NAME, a_pc, base_tag, root_is_pure, self_plat_name,
                   tag, a_classifiers, PACKAGE_VERSION, b_argv, plat_name,
                   classifier, b_classifiers>>

\* Variant B: --plat-name must be given
B_PlatName ==
    /\ b_pc = "platname"
    /\ plat_name' = PlatNameArg(b_argv)
    /\ IF ~Truthy(plat_name')
       THEN b_pc' = "exit" /\ b_exit' = 1
       ELSE b_pc' = "classifier" /\ b_exit' = b_exit
    /\ UNCHANGED <<fetchVars, PLAT_NAME, a_pc, base_tag, root_is_pure, self_plat_name,
                   tag, a_classifiers, PACKAGE_VERSION, b_argv, classifier,
                   b_classifiers>>

\* Variant B: the classifier lookup, and the unknown-plat_name error
B_Classifier ==
    /\ b_pc = "classifier"
    /\ classifier' = ClassifierGet(plat_name)
    /\ IF ~Truthy(classifier')
       THEN b_pc' = "exit" /\ b_exit' = 1
       ELSE b_pc' = "setup" /\ b_exit' = b_exit
    /\ UNCHANGED <<fetchVars, PLAT_NAME, a_pc, base_tag, root_is_pure, self_plat_name,
                   tag, a_classifiers, PACKAGE_VERSION, b_argv, plat_name,
                   b_classifiers>>

\* Variant B: setuptools.setup(..., classifiers=[...])
B_Setup ==
    /\ b_pc = "setup"
    /\ b_classifiers' = <<<<"P","r","o","g","r","a","m","m","i","n","g"," ","L","a","n","g","u","a","g","e"," ",":",":"," ","P","y","t","h","o","n"," ",":",":"," ","3">>,
                          <<"L","i","c","e","n","s","e"," ",":",":"," ","O","S","I"," ","A","p","p","r","o","v","e","d"," ",":",":"," ","M","I","T"," ","L","i","c","e","n","s","e">>,
                          classifier>>
    /\ b_pc' = "done"
    /\ b_exit' = 0
    /\ UNCHANGED <<fetchVars, PLAT_NAME, a_pc, base_tag, root_is_pure, self_plat_name,
                   tag, a_classifiers, PACKAGE_VERSION, b_argv, plat_name, classifier>>

NextCfg ==
    \/ A_Classifiers
    \/ A_Finalize
    \/ A_GetTag
    \/ B_Version
    \/ B_PlatName
    \/ B_Classifier
    \/ B_Setup

SpecCfg ==
    InitCfg /\ [][NextCfg]_vars

----------------------------------------------------------------------------
(* Vocabulary of the properties.                                           *)

Range(s) ==
    {s[i] : i \in 1..Len(s)}

\* Positions of the log's events of kind ev
EventsAt(ev) ==
    {k \in 1..Len(log) : log[k].ev = ev}

\* The run in progress was given two arguments
TwoArgs ==
    Len(argv) = 3

\* The run in progress passed the usage check
ValidArgs ==
    TwoArgs /\ Truthy(argv[2]) /\ Truthy(argv[3])

\* Regular files below directory d
FilesUnder(f, d) ==
    {p \in DOMAIN f : IsUnder(p, d) /\ IsFile(f, p)}

\* Positions of the archive's entries whose name ends with b
Matching(blob, b) ==
    {i \in 1..Len(blob.entries) : EndsWith(blob.entries[i].name, b)}

MaxOf(S) ==
    CHOOSE x \in S : \A y \in S : y <= x

\* The process ended because an exception was raised while artifact i's
\* archive was opened or scanned
RaisedAt(i) ==
    /\ pc = "exit"
    /\ log # <<>>
    /\ log[Len(log)].ev = "raise"
    /\ log[Len(log)].i = i

----------------------------------------------------------------------------
(* C1                                                                      *)

\* C1 as stated: when the fetcher is run with two arguments and a platform
\* identifier that is not a key of ARTIFACTS, the process ends with a
\* non-zero status and no GET was issued.
C1_AsStated ==
    (pc = "exit" /\ TwoArgs /\ argv[2] \notin DOMAIN ARTIFACTS)
        => (exitCode # 0 /\ EventsAt("get") = {})

\* C1, amended: when the fetcher is run with two arguments and a platform
\* identifier whose lower-cased form is not a key of ARTIFACTS, the run never
\* enters the artifact loop, no GET is issued at any point of the run, and
\* the process ends with a non-zero status.
C1_UnknownPlatformNoGet ==
    (TwoArgs /\ Lower(argv[2]) \notin DOMAIN ARTIFACTS)
        => /\ pc \in {"parse", "reset", "lookup", "exit"}
           /\ EventsAt("get") = {}
           /\ (pc = "exit" => exitCode # 0)

\* An unknown platform with a version went through the lookup and exited.
C1_Witness ==
    /\ pc = "exit"
    /\ exitCode = 1
    /\ ValidArgs
    /\ argv[2] = <<"l","i","n","u","x","_","x","8","6","_","6","4">>
    /\ platform = <<"l","i","n","u","x","_","x","8","6","_","6","4">>
    /\ platform_artifacts = <<>>
    /\ IsDir(fs, BINARIES_DIR)

----------------------------------------------------------------------------
(* C2                                                                      *)

\* C2: for every known platform and every artifact of it, if the GET for the
\* artifact returns a status other than 200, the process exits non-zero at
\* once, the artifact's cpu/ or gpu/ subdirectory has not been created and
\* no archive file has been written for it.
C2_FailedGetWritesNothing ==
    \A k \in EventsAt("get") :
        log[k].n # 200
            => /\ k = Len(log)
               /\ pc = "exit"
               /\ exitCode # 0
               /\ ~Exists(fs, ZipPath(platform_artifacts[log[k].i], version))
               /\ ~Exists(fs, OutDir(platform_artifacts[log[k].i]))
               /\ \A j \in 1..Len(log) :
                     log[j].ev \in {"write", "mkdir"} => log[j].i # log[k].i

\* The GET of a platform's second artifact returned 404, after the first
\* artifact was processed.
C2_Witness ==
    /\ pc = "exit"
    /\ platform = <<"w","i","n","_","a","m","d","6","4">>
    /\ idx = 2
    /\ log[Len(log)] = Event("get", 2, 404)
    /\ IsDir(fs, <<<<"c","p","u">>>>)

----------------------------------------------------------------------------
(* C3                                                                      *)

\* The GETs are issued in table order, each one after the archive of the
\* artifact before it was deleted; a GET that returns another status than
\* 200 is the last thing the run does, and it ends the run non-zero.
C3_Order ==
    /\ \A k \in EventsAt("get") :
          /\ log[k].i = Cardinality({j \in EventsAt("get") : j <= k})
          /\ log[k].i > 1 => (k > 1 /\ log[k - 1] = Event("unlink", log[k].i - 1, 0))
          /\ log[k].n # 200 => (k = Len(log) /\ pc = "exit" /\ exitCode # 0)
    /\ pc \in {"for", "get"}
          => \A j \in 1..Len(platform_artifacts) :
                ~Exists(fs, ZipPath(platform_artifacts[j], version))

\* A GET changes no file, and no step of the processing of an artifact
\* changes what is below the subdirectory of an earlier artifact of the run.
C3_Frame ==
    /\ pc = "get" => fs' = fs
    /\ (run' = run /\ idx > 1)
          => \A p \in DOMAIN fs :
                (\E j \in 1..(idx - 1) : IsUnder(p, OutDir(platform_artifacts[j])))
                    => (p \in DOMAIN fs' /\ fs'[p] = fs[p])

\* C3: artifacts of a platform are processed strictly in table order, each
\* fully (download, extract, archive deletion) before the next GET is
\* issued; once a GET returns a non-200 status no later GET is issued, and
\* the run ends non-zero with the earlier artifacts' results left in place.
C3_SequentialAbort ==
    []C3_Order /\ [][C3_Frame]_vars

\* The second artifact's GET failed after the first artifact's binary was
\* extracted and its archive deleted; the binary is still there.
C3_Witness ==
    /\ pc = "exit"
    /\ exitCode = 1
    /\ platform = <<"m","a","n","y","l","i","n","u","x","2","0","1","4","_","x","8","6","_","6","4">>
    /\ Len(log) >= 2
    /\ log[Len(log)] = Event("get", 2, 500)
    /\ log[Len(log) - 1] = Event("unlink", 1, 0)
    /\ IsFile(fs, <<<<"c","p","u">>, <<"a","i",".","s","o">>>>)
    /\ ~Exists(fs, ZipPath(platform_artifacts[1], version))

----------------------------------------------------------------------------
(* C4                                                                      *)

\* C4: at the end of every run with valid arguments, whatever earlier runs
\* did and left behind, every file and directory under the binaries root
\* (the root included) was created by this run.
C4_NothingStale ==
    (pc = "exit" /\ ValidArgs)
        => /\ IsDir(fs, BINARIES_DIR)
           /\ \A p \in DOMAIN fs : fs[p].run = run

\* A second run ended with status 0 and left a binary, after its reset
\* removed what the first run had created.
C4_Witness ==
    /\ pc = "exit"
    /\ exitCode = 0
    /\ run = 2
    /\ 1 \in wiped
    /\ FilesUnder(fs, BINARIES_DIR) # {}

----------------------------------------------------------------------------
(* C5                                                                      *)

\* C5 as stated: for each known platform, whenever a run exits zero the
\* binaries root contains both a cpu/ and a gpu/ subdirectory, and each of
\* the two holds exactly one binary file, named with the platform's binary
\* name.
C5_AsStated ==
    (pc = "exit" /\ exitCode = 0)
        => \A d \in {<<<<"c","p","u">>>>, <<<<"g","p","u">>>>} :
              /\ IsDir(fs, d)
              /\ FilesUnder(fs, d) = {d \o <<BINARY_NAME[platform]>>}

\* C5, amended: for each known platform, whenever a run exits zero the
\* binaries root contains a cpu/ subdirectory, and a gpu/ subdirectory
\* exactly when one of the platform's artifact names contains "gpu" (the
\* Linux and Windows platforms, not the macOS ones); each of these holds at
\* most one file, named with the platform's binary name, and holds it
\* exactly when an entry of the artifact's archive ended with that name.
C5_ExitZeroLayout ==
    (pc = "exit" /\ exitCode = 0)
        => /\ platform \in DOMAIN ARTIFACTS
           /\ IsDir(fs, <<<<"c","p","u">>>>)
           /\ IsDir(fs, <<<<"g","p","u">>>>)
                 <=> (\E j \in 1..Len(ARTIFACTS[platform]) :
                         Contains(ARTIFACTS[platform][j], <<"g","p","u">>))
           /\ FilesUnder(fs, BINARIES_DIR)
                 \subseteq {<<<<"c","p","u">>, BINARY_NAME[platform]>>,
                            <<<<"g","p","u">>, BINARY_NAME[platform]>>}
           /\ \A j \in 1..Len(ARTIFACTS[platform]) :
                 LET d == IF Contains(ARTIFACTS[platform][j], <<"g","p","u">>)
                          THEN <<<<"g","p","u">>>> ELSE <<<<"c","p","u">>>>
                 IN  IsFile(fs, d \o <<BINARY_NAME[platform]>>)
                        <=> (\E k \in EventsAt("extract") : log[k].i = j)

\* A Linux run ended with status 0 and both binaries in place, the cpu one
\* taken from a nested entry.
C5_Witness ==
    /\ pc = "exit"
    /\ exitCode = 0
    /\ platform = <<"m","a","n","y","l","i","n","u","x","2","0","1","4","_","a","a","r","c","h","6","4">>
    /\ IsFile(fs, <<<<"c","p","u">>, <<"a","i",".","s","o">>>>)
    /\ IsFile(fs, <<<<"g","p","u">>, <<"a","i",".","s","o">>>>)
    /\ IsDir(fs, <<<<"c","p","u">>, <<"d">>>>)

----------------------------------------------------------------------------
(* C6                                                                      *)

\* The call of download_and_extract for artifact i has returned: the last
\* thing the run did is the deletion of the artifact's archive.
Returned(i) ==
    log # <<>> /\ log[Len(log)] = Event("unlink", i, 0)

\* Where the claim expects artifact i's binary.
ExpectedBinary(i) ==
    <<IF Contains(platform_artifacts[i], <<"g","p","u">>) THEN <<"g","p","u">> ELSE <<"c","p","u">>,
      BINARY_NAME[platform]>>

\* Artifact i's binary exists and holds the bytes of the last entry of the
\* response's archive whose name ends with the binary name.
BinaryIsLastMatch(i) ==
    /\ IsFile(fs, ExpectedBinary(i))
    /\ fs[ExpectedBinary(i)].data
          = PlainBlob(r.content.entries[MaxOf(Matching(r.content, BINARY_NAME[platform]))].body)

----------------------------------------------------------------------------
(* C7                                                                      *)

\* C7 as stated: once the archive file has been written, in every terminal
\* state of the run reached after that write the archive file no longer
\* exists.
C7_AsStated ==
    pc = "exit"
        => \A k \in EventsAt("write") :
              ~Exists(fs, ZipPath(platform_artifacts[log[k].i], version))

\* C7, amended: once the archive file has been written it is deleted when
\* the scan of the archive completes: in a terminal state of the run reached
\* after that write the archive file no longer exists, unless the run ended
\* because a step between the write and the unlink (opening the archive,
\* extracting an entry, renaming it) raised an exception, in which case the
\* archive file is still there.
C7_ArchiveDeletedUnlessRaised ==
    pc = "exit"
        => \A k \in EventsAt("write") :
              Exists(fs, ZipPath(platform_artifacts[log[k].i], version))
                  <=> RaisedAt(log[k].i)

\* The run ended with status 0 after two archives were written and deleted.
C7_Witness ==
    /\ pc = "exit"
    /\ exitCode = 0
    /\ Cardinality(EventsAt("write")) = 2
    /\ Cardinality(EventsAt("unlink")) = 2
    /\ FilesUnder(fs, BINARIES_DIR) \subseteq {<<<<"c","p","u">>, <<"a","i",".","s","o">>>>, <<<<"g","p","u">>, <<"a","i",".","s","o">>>>}

----------------------------------------------------------------------------
(* C10                                                                     *)

\* C10 as stated: when the fetcher is run with two arguments and a
\* (non-empty) platform not in the table, at the non-zero exit the binaries root exists and is
\* empty; a run with another argument count exits non-zero.
C10_AsStated ==
    /\ (pc = "exit" /\ TwoArgs /\ argv[2] # <<>> /\ argv[2] \notin DOMAIN ARTIFACTS)
          => (exitCode # 0 /\ DOMAIN fs = {BINARIES_DIR})
    /\ (pc = "exit" /\ ~TwoArgs) => exitCode # 0

\* A run that passed the usage check with a platform whose lower-cased form
\* is not in the table ends non-zero with the binaries root existing and
\* empty; a run that fails the usage check ends non-zero.
C10_AtExit ==
    /\ (pc = "exit" /\ ValidArgs /\ Lower(argv[2]) \notin DOMAIN ARTIFACTS)
          => (exitCode # 0 /\ DOMAIN fs = {BINARIES_DIR} /\ IsDir(fs, BINARIES_DIR))
    /\ (pc = "exit" /\ ~ValidArgs) => exitCode # 0

\* No step of a run that fails the usage check changes the file system.
C10_UsageFrame ==
    ~(Len(argv') = 3 /\ Truthy(argv'[2]) /\ Truthy(argv'[3])) => fs' = fs

\* C10, amended: the destructive reset precedes the platform lookup: when
\* the fetcher is run with two non-empty arguments and a platform whose
\* lower-cased form is not in the table, at the non-zero exit the binaries
\* root exists and is empty whatever it contained before the run, whereas a
\* run with an argument count other than two (or an empty argument) exits
\* non-zero with the binaries root exactly as it was before.
C10_ResetBeforeLookup ==
    []C10_AtExit /\ [][C10_UsageFrame]_vars

\* An unknown platform's run ended with an empty root after its reset
\* removed files of an earlier build.
C10_Witness ==
    /\ pc = "exit"
    /\ exitCode = 1
    /\ ValidArgs
    /\ Lower(argv[2]) \notin DOMAIN ARTIFACTS
    /\ 0 \in wiped
    /\ DOMAIN fs = {BINARIES_DIR}

----------------------------------------------------------------------------
(* C8 (specification SpecCfg)                                              *)

\* C8: for every one of the five known platform names p, when PLAT_NAME is
\* p variant A returns (py3, none, p) from get_tag whatever tag the base
\* class computed, marks the wheel as not pure, and hands setup() a
\* classifier list containing the operating-system classifier of p (for
\* manylinux2014_x86_64: Operating System :: POSIX :: Linux).
C8_TagAndClassifier ==
    (a_pc = "done" /\ PLAT_NAME \in DOMAIN classifier_map_A)
        => /\ tag = <<<<"p","y","3">>, <<"n","o","n","e">>, PLAT_NAME>>
           /\ root_is_pure = FALSE
           /\ self_plat_name = PLAT_NAME
           /\ classifier_map_A[PLAT_NAME][1] \in Range(a_classifiers)
           /\ PLAT_NAME = <<"m","a","n","y","l","i","n","u","x","2","0","1","4","_","x","8","6","_","6","4">>
                 => <<"O","p","e","r","a","t","i","n","g"," ","S","y","s","t","e","m"," ",":",":"," ","P","O","S","I","X"," ",":",":"," ","L","i","n","u","x">> \in Range(a_classifiers)

\* PLAT_NAME=manylinux2014_x86_64, and the base class had computed an
\* interpreter-specific tag for another platform.
C8_Witness ==
    /\ a_pc = "done"
    /\ PLAT_NAME = <<"m","a","n","y","l","i","n","u","x","2","0","1","4","_","x","8","6","_","6","4">>
    /\ base_tag = <<<<"c","p","3","1","1">>, <<"c","p","3","1","1">>, <<"l","i","n","u","x","_","x","8","6","_","6","4">>>>
    /\ tag = <<<<"p","y","3">>, <<"n","o","n","e">>, <<"m","a","n","y","l","i","n","u","x","2","0","1","4","_","x","8","6","_","6","4">>>>

----------------------------------------------------------------------------
(* C9 (specification SpecCfg)                                              *)

\* The operating-system classifiers of the table.
OSClassifiers ==
    {classifier_map_B[p] : p \in DOMAIN classifier_map_B}

\* Both variants were given the platform name p and have ended.
BothEndedWith(p) ==
    /\ PLAT_NAME = p
    /\ a_pc \in {"raised", "done"}
    /\ Truthy(PACKAGE_VERSION)
    /\ PlatNameArg(b_argv) = p
    /\ b_pc \in {"exit", "done"}

A_Failed ==
    a_pc = "raised"

B_Failed ==
    b_pc = "exit" /\ b_exit # 0

\* C9 as stated: for a supplied platform name that is not one of the five
\* keys, one variant fails and the other completes its configuration with
\* the operating-system classifier omitted.
C9_AsStated ==
    \A p \in PlatNameInputs :
        (Truthy(p) /\ p \notin DOMAIN classifier_map_B /\ BothEndedWith(p))
            => \/ (A_Failed /\ b_pc = "done"
                     /\ Range(b_classifiers) \cap OSClassifiers = {})
               \/ (B_Failed /\ a_pc = "done"
                     /\ Range(a_classifiers) \cap OSClassifiers = {})

\* C9, amended: for a supplied platform name that is not one of the five
\* keys of the classifier table, the two variants do not differ in outcome:
\* both fail before any configuration is handed to the packaging tool,
\* variant A by the ValueError of get_platform_classifiers, variant B (with
\* PACKAGE_VERSION set) by printing "Unknown plat_name" and exiting with
\* status 1; neither completes with the classifier omitted.
C9_BothFail ==
    /\ (a_pc # "start" /\ Truthy(PLAT_NAME) /\ PLAT_NAME \notin DOMAIN classifier_map_A)
          => (A_Failed /\ a_classifiers = <<>>)
    /\ (b_pc \in {"exit", "done", "setup"} /\ Truthy(PACKAGE_VERSION)
           /\ Truthy(PlatNameArg(b_argv))
           /\ PlatNameArg(b_argv) \notin DOMAIN classifier_map_B)
          => (B_Failed /\ b_exit = 1 /\ classifier = None /\ b_classifiers = <<>>)

\* Both variants were given linux_x86_64 and both have failed.
C9_Witness ==
    /\ BothEndedWith(<<"l","i","n","u","x","_","x","8","6","_","6","4">>)
    /\ A_Failed
    /\ B_Failed
    /\ plat_name = <<"l","i","n","u","x","_","x","8","6","_","6","4">>

====
